---- MODULE Spec2Model ----
(***************************************************************************)
(* Simple Inkscape Scripting (simple_inkscape_scripting.py): the scene     *)
(* construction engine.  The module-level globals are the state; every     *)
(* API function the user script may call is one atomic action (the         *)
(* program is single threaded and every call runs to completion).          *)
(*                                                                         *)
(* Conventions.  A Python string that the code inspects character by       *)
(* character (a transform) is a sequence of one-character strings.  A      *)
(* Python value that may be None, a string or a number is a tagged record  *)
(* (PyNone, PyStr, PyInt).  A dict is a sequence of <<key, value>> pairs   *)
(* in insertion order.  An angle is an integer number of eighth turns      *)
(* (Pi == 4); a point of an ellipse is named by its angle modulo a turn.   *)
(***************************************************************************)
EXTENDS Integers, Sequences, FiniteSets, TLC

VARIABLES
    id_prefix,          \* _id_prefix (line 43): the random part of every id
    next_obj_id,        \* _next_obj_id (line 46)
    simple_objs,        \* _simple_objs (line 49): the top-level registry
    objs,               \* every SimpleObject ever constructed, in creation order
    default_style,      \* _default_style (line 52)
    default_transform,  \* _default_transform (line 59)
    svg_defs,           \* _svg_defs (line 62): filters and gradients
    call,               \* the API call being reported: its name and arguments
    ret,                \* what that call returned
    msgs,               \* the messages that call gave to inkex.utils.errormsg
    raised              \* the exception that call let escape, "" when none

vars == <<id_prefix, next_obj_id, simple_objs, objs, default_style,
          default_transform, svg_defs, call, ret, msgs, raised>>

----------------------------------------------------------------------------
(* Bounds of the model.                                                    *)

MaxObjs == 3
MaxStyleObjs == 1
MaxTransformObjs == 2
MaxShapeObjs == 1
MaxArcObjs == 1
MaxFilterObjs == 1
MaxIdObjs == 2
MaxHandleObjs == 1
MaxFilters == 1
MaxPrims == 2
MaxDefs == 1
MaxHandlePrims == 1
MaxSpans == 1
MaxTextObjs == 3
MaxCoords == 3
MaxSides == 3
MaxAngle == 5

----------------------------------------------------------------------------
(* Python values.                                                          *)

PyNone == [t |-> "none", s |-> "", n |-> 0]
PyStr(s) == [t |-> "str", s |-> s, n |-> 0]
PyInt(n) == [t |-> "int", s |-> "", n |-> n]

Digit(d) == CASE d = 0 -> "0" [] d = 1 -> "1" [] d = 2 -> "2" [] d = 3 -> "3"
              [] d = 4 -> "4" [] d = 5 -> "5" [] d = 6 -> "6" [] d = 7 -> "7"
              [] d = 8 -> "8" [] OTHER -> "9"

\* str(v) of a string or of a small non-negative integer (lines 124, 309).
Str(v) == IF v.t = "str" THEN v.s ELSE Digit(v.n)

\* k.replace('_', '-') on the keys the model uses (lines 120, 217, 305).
ReplaceUnderscore(k) ==
    CASE k = "stroke_width" -> "stroke-width"
      [] k = "std_deviation" -> "std-deviation"
      [] OTHER -> k

----------------------------------------------------------------------------
(* Dicts as sequences of pairs.                                            *)

RECURSIVE IndexOfKey(_, _, _)
IndexOfKey(d, k, i) ==
    IF i > Len(d) THEN 0
    ELSE IF d[i][1] = k THEN i ELSE IndexOfKey(d, k, i + 1)

HasKey(d, k) == IndexOfKey(d, k, 1) # 0

\* d[k] = v: an existing key keeps its position, a new key goes last.
DictSet(d, k, v) ==
    LET i == IndexOfKey(d, k, 1)
    IN  IF i = 0 THEN Append(d, <<k, v>>) ELSE [d EXCEPT ![i] = <<k, v>>]

DictGet(d, k) == d[IndexOfKey(d, k, 1)][2]

\* d.update(e)
RECURSIVE DictUpdate(_, _)
DictUpdate(d, e) ==
    IF e = <<>> THEN d
    ELSE DictUpdate(DictSet(d, Head(e)[1], Head(e)[2]), Tail(e))

----------------------------------------------------------------------------
(* Identity allocator.                                                     *)

\* '%d' % n for n >= 0, as a sequence of digits.
RECURSIVE DecStr(_)
DecStr(n) == IF n < 10 THEN <<Digit(n)>> ELSE DecStr(n \div 10) \o <<Digit(n % 10)>>

\* _id_prefix (line 43): 'simp-ink-scr-%d-' % randint(100000, 999999)
IdPrefix(r) == <<"simp-ink-scr-">> \o DecStr(r) \o <<"-">>

\* A faulty unique_id that leaves the counter out of the tag.
UniqueTagNoCounter(prefix, n) == prefix

\* unique_id() (lines 65-70): the tag it returns, from the counter it reads.
UniqueTag(prefix, n) == prefix \o DecStr(n)

----------------------------------------------------------------------------
(* Style resolver.                                                         *)

\* _common_shape_style (lines 55-56) and the per-shape defaults.
CommonShapeStyle == << <<"stroke", PyStr("black")>>, <<"fill", PyStr("none")>> >>
LineShapeStyle == << <<"stroke", PyStr("black")>> >>
EmptyStyle == <<>>

\* Lines 119-124 and 304-309: overlay keyword arguments on a dict.
RECURSIVE OverlayKwargs(_, _)
OverlayKwargs(style, kwargs) ==
    IF kwargs = <<>> THEN style
    ELSE LET k == ReplaceUnderscore(Head(kwargs)[1])
             v == Head(kwargs)[2]
         IN  OverlayKwargs(
                 DictSet(style, k, IF v.t = "none" THEN PyNone ELSE PyStr(Str(v))),
                 Tail(kwargs))

\* Line 127: drop the keys whose value is None.
RECURSIVE DropNone(_)
DropNone(style) ==
    IF style = <<>> THEN <<>>
    ELSE IF Head(style)[2].t = "none" THEN DropNone(Tail(style))
         ELSE <<Head(style)>> \o DropNone(Tail(style))

\* Line 130: ';'.join(['%s:%s' % kv ...]) as a sequence of tokens.
RECURSIVE JoinStyle(_)
JoinStyle(style) ==
    IF style = <<>> THEN <<>>
    ELSE LET v == Head(style)[2]
             kv == <<Head(style)[1], ":", IF v.t = "none" THEN "None" ELSE v.s>>
         IN  IF Len(style) = 1 THEN kv
             ELSE kv \o <<";">> \o JoinStyle(Tail(style))

\* A faulty resolver that applies the process-wide default last, over the
\* per-call style.
StyleDictDefaultLast(shape_style, dflt, new_style) ==
    DropNone(DictUpdate(OverlayKwargs(shape_style, new_style), dflt))

\* The dict _construct_style serialises (lines 113-127).
StyleDict(shape_style, dflt, new_style) ==
    DropNone(OverlayKwargs(DictUpdate(shape_style, dflt), new_style))

\* SimpleObject._construct_style
ConstructStyle(shape_style, dflt, new_style) ==
    JoinStyle(StyleDict(shape_style, dflt, new_style))

----------------------------------------------------------------------------
(* Transform composer.                                                     *)

NoTransform == [t |-> "none", s |-> <<>>]
Tr(s) == [t |-> "str", s |-> s]

RECURSIVE LStrip(_)
LStrip(s) == IF s # <<>> /\ Head(s) = " " THEN LStrip(Tail(s)) ELSE s

RECURSIVE RStrip(_)
RStrip(s) ==
    IF s # <<>> /\ s[Len(s)] = " " THEN RStrip(SubSeq(s, 1, Len(s) - 1)) ELSE s

\* str.strip()
Strip(s) == RStrip(LStrip(s))

\* ' '.join(ts)
RECURSIVE JoinSpace(_)
JoinSpace(ts) ==
    IF ts = <<>> THEN <<>>
    ELSE IF Len(ts) = 1 THEN Head(ts)
         ELSE Head(ts) \o <<" ">> \o JoinSpace(Tail(ts))

\* A faulty composer that puts the process-wide default first.
TransformListDefaultFirst(transform, dflt) ==
    (IF dflt.t # "none" /\ dflt.s # <<>> THEN <<dflt.s>> ELSE <<>>)
    \o (IF transform.t # "none" /\ transform.s # <<>> THEN <<transform.s>> ELSE <<>>)

\* Lines 79-83: the list ts.
TransformList(transform, dflt) ==
    (IF transform.t # "none" /\ transform.s # <<>> THEN <<transform.s>> ELSE <<>>)
    \o (IF dflt.t # "none" /\ dflt.s # <<>> THEN <<dflt.s>> ELSE <<>>)

\* Lines 84-85: the element's transform attribute after __init__.
ComposeTransform(transform, dflt) ==
    LET ts == TransformList(transform, dflt)
    IN  IF ts # <<>> THEN Tr(JoinSpace(ts)) ELSE NoTransform

----------------------------------------------------------------------------
(* Scene object model.                                                     *)

NoId == <<>>

\* Handles and other values a call takes or returns.
PyNoneRef == [t |-> "none", v |-> 0]
ObjRef(i) == [t |-> "obj", v |-> i]
FilterRef(f) == [t |-> "filter", v |-> f]
PrimRef(f, p) == [t |-> "prim", v |-> <<f, p>>]
GradRef(g) == [t |-> "grad", v |-> g]
StrVal(s) == [t |-> "str", v |-> s]

\* A fresh inkex element: no id, no transform, no style, no parent.
Elt(tag, attrs) ==
    [tag |-> tag, id |-> NoId, transform |-> NoTransform, style |-> <<>>,
     avoid |-> FALSE, attrs |-> attrs, path |-> <<>>, tspans |-> <<>>,
     parent |-> 0]

\* SimpleObject.__init__ (lines 76-100): the element as the wrapper leaves it.
WrapElement(elt, transform, conn_avoid, shape_style, obj_style) ==
    LET t == ComposeTransform(transform, default_transform)
        ext_style == ConstructStyle(shape_style, default_style, obj_style)
    IN  [elt EXCEPT !.transform = IF t.t # "none" THEN t ELSE @,
                    !.avoid = IF conn_avoid THEN TRUE ELSE @,
                    !.style = IF ext_style # <<>> THEN ext_style ELSE @,
                    !.id = UniqueTag(id_prefix, next_obj_id)]

\* The wrapper object: class SimpleObject or SimpleGroup (line 147).
SimpleObject(class, elt) == [class |-> class, obj |-> elt, children |-> <<>>]

\* A creation call that succeeds: lines 96-101 and the caller's return.
Create(c, class, elt, transform, conn_avoid, shape_style, obj_style, m) ==
    /\ objs' = Append(objs, SimpleObject(class,
                   WrapElement(elt, transform, conn_avoid, shape_style, obj_style)))
    /\ simple_objs' = Append(simple_objs, Len(objs) + 1)
    /\ next_obj_id' = next_obj_id + 1
    /\ ret' = ObjRef(Len(objs) + 1)
    /\ msgs' = m
    /\ raised' = ""
    /\ call' = c
    /\ UNCHANGED <<id_prefix, default_style, default_transform, svg_defs>>

\* A call that reports a message and returns None.
Reject(c, m) ==
    /\ msgs' = <<m>>
    /\ ret' = PyNoneRef
    /\ raised' = ""
    /\ call' = c
    /\ UNCHANGED <<id_prefix, next_obj_id, simple_objs, objs, default_style,
                   default_transform, svg_defs>>

IsTopLevel(reg, i) == \E k \in 1..Len(reg) : reg[k] = i

\* Line 172: [o for o in _simple_objs if o is not obj]
RECURSIVE RemoveObj(_, _)
RemoveObj(reg, i) ==
    IF reg = <<>> THEN <<>>
    ELSE IF Head(reg) = i THEN RemoveObj(Tail(reg), i)
         ELSE <<Head(reg)>> \o RemoveObj(Tail(reg), i)

\* Whether element a is element b or one of its ancestors in the native tree.
RECURSIVE IsAncestorOrSelf(_, _, _, _)
IsAncestorOrSelf(os, a, b, fuel) ==
    IF a = b THEN TRUE
    ELSE IF fuel = 0 \/ os[b].obj.parent = 0 THEN FALSE
         ELSE IsAncestorOrSelf(os, a, os[b].obj.parent, fuel - 1)

\* A faulty add that nests the child but forgets line 172, the removal
\* from the top-level registry.
GroupAddStepKeepsRegistered(st, g, o) ==
    IF o.t # "obj"
    THEN [st EXCEPT !.msgs = Append(@, "Only Simple Inkscape Scripting objects can be added to a group")]
    ELSE IF ~IsTopLevel(st.reg, o.v)
    THEN [st EXCEPT !.msgs = Append(@, "Only objects not already in a group can be added to a group")]
    ELSE [st EXCEPT !.os = [@ EXCEPT ![g].children = Append(@, o.v)]]

\* A faulty add that reports an already-owned object but lacks the return
\* of line 169 and goes on to lines 171-176.
GroupAddStepNoReturn(st, g, o) ==
    IF o.t # "obj"
    THEN [st EXCEPT !.msgs = Append(@, "Only Simple Inkscape Scripting objects can be added to a group")]
    ELSE [st EXCEPT !.msgs = IF ~IsTopLevel(st.reg, o.v)
                             THEN Append(@, "Only objects not already in a group can be added to a group")
                             ELSE @,
                    !.reg = RemoveObj(st.reg, o.v),
                    !.os = [@ EXCEPT ![g].children = Append(@, o.v)]]

\* SimpleGroup.add (lines 158-176) on the state st = [reg, os, msgs, raised].
\* The native add of line 176 moves the child element under the group's
\* element; the element tree refuses a cycle with a ValueError.
GroupAddStep(st, g, o) ==
    IF o.t # "obj"
    THEN [st EXCEPT !.msgs = Append(@, "Only Simple Inkscape Scripting objects can be added to a group")]
    ELSE IF ~IsTopLevel(st.reg, o.v)
    THEN [st EXCEPT !.msgs = Append(@, "Only objects not already in a group can be added to a group")]
    ELSE LET os1 == [st.os EXCEPT ![g].children = Append(@, o.v)]
             cyc == IsAncestorOrSelf(os1, o.v, g, Len(os1))
         IN  [st EXCEPT !.reg = RemoveObj(st.reg, o.v),
                        !.os = IF cyc THEN os1
                               ELSE [os1 EXCEPT ![o.v].obj.parent = g],
                        !.raised = IF cyc THEN "ValueError" ELSE @]

\* Lines 570-571: for o in objs: obj.add(o)
RECURSIVE GroupAddAll(_, _, _)
GroupAddAll(st, g, os) ==
    IF os = <<>> \/ st.raised # "" THEN st
    ELSE GroupAddAll(GroupAddStep(st, g, Head(os)), g, Tail(os))

----------------------------------------------------------------------------
(* The creation calls.  Every one takes the set of keyword options         *)
(* (transform, conn_avoid, style) and the number of objects it may reach.  *)

Opt(tr, ca, st) == [transform |-> tr, conn_avoid |-> ca, style |-> st]

PlainOpts == {Opt(NoTransform, FALSE, <<>>)}

CallOf(op, args, o) == [op |-> op, args |-> args, opt |-> o]

\* circle (lines 318-321)
Circle(max, Opts) ==
    /\ Len(objs) < max
    /\ \E o \in Opts :
          Create(CallOf("circle", <<>>, o), "SimpleObject", Elt("circle", <<>>),
                 o.transform, o.conn_avoid, CommonShapeStyle, o.style, <<>>)

\* line (lines 357-362)
Line(max, Opts) ==
    /\ Len(objs) < max
    /\ \E o \in Opts :
          Create(CallOf("line", <<>>, o), "SimpleObject", Elt("line", <<>>),
                 o.transform, o.conn_avoid, LineShapeStyle, o.style, <<>>)

\* The coordinate lists of n points.
Coords(n) == [i \in 1..n |-> <<i, 0>>]

\* Lines 370 and 381: the points attribute.
PointsAttr(coords) == JoinSpace([i \in 1..Len(coords) |->
                                    <<coords[i][1], ",", coords[i][2]>>])

\* polyline (lines 365-372)
Polyline(max, Opts) ==
    \E n \in 0..MaxCoords, o \in Opts :
        LET coords == Coords(n)
            c == CallOf("polyline", coords, o)
        IN  IF Len(coords) < 2
            THEN Reject(c, "A polyline must contain at least two points.")
            ELSE /\ Len(objs) < max
                 /\ Create(c, "SimpleObject",
                           Elt("polyline", << <<"points", PointsAttr(coords)>> >>),
                           o.transform, o.conn_avoid, CommonShapeStyle, o.style, <<>>)

\* polygon (lines 375-383)
Polygon(max, Opts) ==
    \E n \in 0..MaxCoords, o \in Opts :
        LET coords == Coords(n)
            c == CallOf("polygon", coords, o)
        IN  IF Len(coords) < 3
            THEN Reject(c, "A polygon must contain at least three points.")
            ELSE /\ Len(objs) < max
                 /\ Create(c, "SimpleObject",
                           Elt("polygon", << <<"points", PointsAttr(coords)>> >>),
                           o.transform, o.conn_avoid, CommonShapeStyle, o.style, <<>>)

\* regular_polygon (lines 386-402)
RegularPolygon(max, Opts) ==
    \E sides \in 2..MaxSides, o \in Opts :
        LET c == CallOf("regular_polygon", sides, o)
        IN  IF sides < 3
            THEN Reject(c, "A regular polygon must contain at least three points.")
            ELSE /\ Len(objs) < max
                 /\ Create(c, "SimpleObject",
                           Elt("path", << <<"sodipodi:sides", sides>>,
                                          <<"inkscape:flatsided", "true">> >>),
                           o.transform, o.conn_avoid, CommonShapeStyle, o.style, <<>>)

\* star (lines 405-428)
Star(max, Opts) ==
    \E sides \in 2..MaxSides, o \in Opts :
        LET c == CallOf("star", sides, o)
        IN  IF sides < 3
            THEN Reject(c, "A star must contain at least three points.")
            ELSE /\ Len(objs) < max
                 /\ Create(c, "SimpleObject",
                           Elt("path", << <<"sodipodi:sides", sides>>,
                                          <<"inkscape:flatsided", "false">> >>),
                           o.transform, o.conn_avoid, CommonShapeStyle, o.style, <<>>)

\* The path element lists the model draws from.
PathElts == {<<>>, << <<"M", "0,0">> >>, << <<"M", "0,0">>, <<"L", "1,1">> >>}

\* path (lines 474-482)
Path(max, Opts) ==
    \E elts \in PathElts, o \in Opts :
        LET c == CallOf("path", elts, o)
        IN  IF Len(elts) = 0
            THEN Reject(c, "A path must contain at least one path element.")
            ELSE /\ Len(objs) < max
                 /\ Create(c, "SimpleObject",
                           Elt("path", << <<"d", JoinSpace(elts)>> >>),
                           o.transform, o.conn_avoid, CommonShapeStyle, o.style, <<>>)

\* text (lines 505-518)
Text(max, Opts) ==
    /\ Len(objs) < max
    /\ \E o \in Opts :
          Create(CallOf("text", <<>>, o), "SimpleObject",
                 Elt("text", << <<"xml:space", "preserve">> >>),
                 o.transform, o.conn_avoid, EmptyStyle, o.style, <<>>)

\* more_text (lines 521-536)
MoreText(Opts) ==
    \E o \in Opts, base \in BOOLEAN :
        LET c == CallOf("more_text", base, o)
        IN  IF \/ Len(simple_objs) = 0
               \/ objs[simple_objs[Len(simple_objs)]].obj.tag # "text"
            THEN Reject(c, "more_text must immediately follow text or another more_text")
            ELSE LET i == simple_objs[Len(simple_objs)]
                     tspan == [style |-> ConstructStyle(EmptyStyle, default_style, o.style),
                               xy |-> base]
                 IN  /\ Len(objs[i].obj.tspans) < MaxSpans
                     /\ objs' = [objs EXCEPT ![i].obj.tspans = Append(@, tspan)]
                     /\ ret' = ObjRef(i)
                     /\ msgs' = <<>>
                     /\ raised' = ""
                     /\ call' = c
                     /\ UNCHANGED <<id_prefix, next_obj_id, simple_objs,
                                    default_style, default_transform, svg_defs>>

\* What a script may pass where an object is expected: any object it holds,
\* or the None a rejected call returned.
Handles == {ObjRef(i) : i \in 1..Len(objs)} \cup {PyNoneRef}

HandleLists == {<<>>} \cup {<<a>> : a \in Handles}
                  \cup {<<a, b>> : a \in Handles, b \in Handles}

\* group (lines 566-572)
Group(max, Opts, Lists) ==
    /\ Len(objs) < max
    /\ \E o \in Opts, os \in Lists :
          LET g == Len(objs) + 1
              new == SimpleObject("SimpleGroup",
                         WrapElement(Elt("g", <<>>), o.transform, o.conn_avoid,
                                     EmptyStyle, o.style))
              st == GroupAddAll([reg |-> Append(simple_objs, g),
                                 os |-> Append(objs, new),
                                 msgs |-> <<>>, raised |-> ""], g, os)
          IN  /\ objs' = st.os
              /\ simple_objs' = st.reg
              /\ next_obj_id' = next_obj_id + 1
              /\ msgs' = st.msgs
              /\ raised' = st.raised
              /\ ret' = IF st.raised = "" THEN ObjRef(g) ELSE PyNoneRef
              /\ call' = CallOf("group", os, o)
              /\ UNCHANGED <<id_prefix, default_style, default_transform, svg_defs>>

\* SimpleGroup.add (lines 158-176), called by the script on a group it holds.
GroupAdd ==
    \E g \in 1..Len(objs), o \in Handles :
        /\ objs[g].class = "SimpleGroup"
        /\ LET st == GroupAddStep([reg |-> simple_objs, os |-> objs,
                                   msgs |-> <<>>, raised |-> ""], g, o)
           IN  /\ objs' = st.os
               /\ simple_objs' = st.reg
               /\ msgs' = st.msgs
               /\ raised' = st.raised
               /\ ret' = PyNoneRef
               /\ call' = CallOf("add", <<g, o>>, <<>>)
               /\ UNCHANGED <<id_prefix, next_obj_id, default_style,
                              default_transform, svg_defs>>

----------------------------------------------------------------------------
(* Arc path synthesizer.                                                   *)

\* pi, in the model's angle unit of an eighth turn.
Pi == 4
TwoPi == 2 * Pi
HalfPi == Pi \div 2

\* Angles between the grid points: every k/n of a unit, n <= 5, is a whole
\* number of 1/60 units.
Fine == 3 * 4 * 5

\* rx*cos(a) + cx, ry*sin(a) + cy: the point of the ellipse at fine angle a.
EllipsePoint(a) == [on |-> "ellipse", at |-> a % (TwoPi * Fine)]
CenterPoint == [on |-> "center", at |-> 0]
NoPoint == [on |-> "none", at |-> 0]

Move(pt) == [cmd |-> "M", to |-> pt]
ArcTo(pt) == [cmd |-> "A", to |-> pt]   \* Arc(rx, ry, 0, False, True, x1, y1)
LineTo(pt) == [cmd |-> "L", to |-> pt]
ZoneClose == [cmd |-> "Z", to |-> NoPoint]

\* Lines 450-452
DeltaAng(ang1, ang2) ==
    LET d == ((ang2 % TwoPi) - (ang1 % TwoPi)) % TwoPi
    IN  IF d = 0 THEN TwoPi ELSE d

\* A faulty count that rounds the quotient up instead of adding a segment.
NSegsRoundedUp(delta_ang) == (delta_ang + HalfPi - 1) \div HalfPi

\* Line 453
NSegs(delta_ang) == (delta_ang + HalfPi) \div HalfPi

\* Lines 454-458: the segments of the sweep.
ArcSegments(ang1, ang2) ==
    LET a1 == ang1 % TwoPi
        delta_ang == DeltaAng(ang1, ang2)
        n_segs == NSegs(delta_ang)
    IN  [s \in 1..n_segs |->
            ArcTo(EllipsePoint(a1 * Fine + (delta_ang * s * Fine) \div n_segs))]

\* A faulty closing with the branches of slice and chord exchanged.
ArcClosingExchanged(arc_type) ==
    CASE arc_type = "chord" -> <<LineTo(CenterPoint), ZoneClose>>
      [] arc_type = "slice" -> <<ZoneClose>>
      [] OTHER -> <<>>

\* Lines 459-465: what the arc type appends.
ArcClosing(arc_type) ==
    CASE arc_type = "slice" -> <<LineTo(CenterPoint), ZoneClose>>
      [] arc_type = "chord" -> <<ZoneClose>>
      [] OTHER -> <<>>

\* Lines 444-468: the path list p.
ArcPath(ang1, ang2, arc_type) ==
    <<Move(EllipsePoint((ang1 % TwoPi) * Fine))>>
    \o ArcSegments(ang1, ang2) \o ArcClosing(arc_type)

ArcTypes == {"arc", "slice", "chord"}

\* Lines 435-439 and 459-460: the attributes of the arc element.
ArcAttrs(arc_type) ==
    (IF arc_type \in ArcTypes THEN << <<"sodipodi:arc-type", arc_type>> >> ELSE <<>>)
    \o (IF arc_type = "arc" THEN << <<"sodipodi:open", "true">> >> ELSE <<>>)

\* Lines 439 and 467: the messages of one arc call.
ArcMsgs(arc_type) ==
    IF arc_type \in ArcTypes THEN <<>>
    ELSE <<"Invalid arc_type", "Invalid arc_type">>

\* arc (lines 431-471)
Arc(max, Opts, Angles, Types) ==
    /\ Len(objs) < max
    /\ \E ang1 \in Angles, ang2 \in Angles, arc_type \in Types, o \in Opts :
          Create(CallOf("arc", [ang1 |-> ang1, ang2 |-> ang2, arc_type |-> arc_type], o),
                 "SimpleObject",
                 [Elt("path", ArcAttrs(arc_type))
                     EXCEPT !.path = ArcPath(ang1, ang2, arc_type)],
                 o.transform, o.conn_avoid, CommonShapeStyle, o.style,
                 ArcMsgs(arc_type))

----------------------------------------------------------------------------
(* Process-wide defaults.                                                  *)

\* The keyword arguments a script passes as a style: keys as written,
\* values None, a string (possibly empty) or a number.
StyleKeys == {"fill", "stroke_width", "stroke-width"}
StyleVals == {PyNone, PyStr("red"), PyStr(""), PyInt(2)}
StylePairs == {<<k, v>> : k \in StyleKeys, v \in StyleVals}

\* One keyword, or two with different names, in the order written.
StyleKwargs1 == {<<p>> : p \in StylePairs}
StyleKwargs2 == {kw \in {<<p, q>> : p \in StylePairs, q \in StylePairs} :
                    /\ kw[1][1] # kw[2][1]
                    /\ {kw[1][1], kw[2][1]} # {"fill", "stroke-width"}
                    /\ kw[1][2] \in {PyNone, PyStr("red")}
                    /\ kw[2][2] \in {PyNone, PyInt(2)}}
StyleKwargs == {<<>>} \cup StyleKwargs1 \cup StyleKwargs2

\* The keywords of the style() calls of the model.
DefaultKwargs == {kw \in StyleKwargs1 : kw[1][1] # "stroke-width"}

\* style (lines 301-309)
Style(Kwargs) ==
    \E kwargs \in Kwargs :
        /\ default_style' = OverlayKwargs(default_style, kwargs)
        /\ ret' = PyNoneRef
        /\ msgs' = <<>>
        /\ raised' = ""
        /\ call' = CallOf("style", kwargs, <<>>)
        /\ UNCHANGED <<id_prefix, next_obj_id, simple_objs, objs,
                       default_transform, svg_defs>>

\* The transform strings of the model: "s", "r", blanks around them.
TransformStrings == {<<>>, <<" ">>, <<"r">>, <<" ", "r", " ">>}

\* The options of a creation call that passes a style, or a transform.
StyleOpts == {Opt(NoTransform, FALSE, st) : st \in StyleKwargs}
TransformOpts == {Opt(tr, ca, <<>>) :
                     tr \in {NoTransform, Tr(<<>>), Tr(<<"s">>), Tr(<<" ">>)},
                     ca \in BOOLEAN}

\* transform (lines 312-315)
Transform(Strings) ==
    \E t \in Strings :
        /\ default_transform' = Tr(Strip(t))
        /\ ret' = PyNoneRef
        /\ msgs' = <<>>
        /\ raised' = ""
        /\ call' = CallOf("transform", t, <<>>)
        /\ UNCHANGED <<id_prefix, next_obj_id, simple_objs, objs,
                       default_style, svg_defs>>

----------------------------------------------------------------------------
(* Resource registry: filters and gradients.                               *)

\* inkex's get_id() on an element of the defs: the id it has, or a fresh
\* one made of the tag and a number no other element of the defs carries.
InkexId(tag, k) == <<tag>> \o DecStr(k)

IdFree(defs, id) == \A i \in 1..Len(defs) : defs[i].id # id

EnsureId(defs, i, k) ==
    IF defs[i].id # NoId THEN defs
    ELSE [defs EXCEPT ![i].id = InkexId(defs[i].tag, k)]

InkexNumbers == 1..MaxDefs

\* A faulty conversion that yields the bare fragment '#id'.
UrlOfFragment(id) == <<"#">> \o id

\* 'url(#%s)' % id (lines 107, 205, 284)
UrlOf(id) == <<"url(#">> \o id \o <<")">>

\* SimpleObject.__str__ (lines 103-107)
StrObject ==
    \E i \in 1..Len(objs) :
        /\ ret' = StrVal(UrlOf(objs[i].obj.id))
        /\ msgs' = <<>>
        /\ raised' = ""
        /\ call' = CallOf("str", ObjRef(i), <<>>)
        /\ UNCHANGED <<id_prefix, next_obj_id, simple_objs, objs, default_style,
                       default_transform, svg_defs>>

\* SimpleFilter.__str__ (lines 204-205) and SimpleLinearGradient.__str__
\* (lines 283-284)
StrResource ==
    \E i \in 1..Len(svg_defs), k \in InkexNumbers :
        /\ IF svg_defs[i].id # NoId THEN TRUE
           ELSE IdFree(svg_defs, InkexId(svg_defs[i].tag, k))
        /\ svg_defs' = EnsureId(svg_defs, i, k)
        /\ ret' = StrVal(UrlOf(svg_defs'[i].id))
        /\ msgs' = <<>>
        /\ raised' = ""
        /\ call' = CallOf("str", IF svg_defs[i].tag = "filter" THEN FilterRef(i)
                                 ELSE GradRef(i), <<>>)
        /\ UNCHANGED <<id_prefix, next_obj_id, simple_objs, objs, default_style,
                       default_transform>>

\* object.__str__: class SimpleFilterPrimitive (lines 207-239) defines none.
DefaultRepr(class, f, p) == <<"<", class, " object at ">> \o DecStr(f) \o DecStr(p) \o <<">">>

\* str() of a SimpleFilterPrimitive
StrPrimitive ==
    \E f \in 1..Len(svg_defs) :
        /\ svg_defs[f].tag = "filter"
        /\ \E p \in 1..Len(svg_defs[f].prims) :
              /\ ret' = StrVal(DefaultRepr("SimpleFilterPrimitive", f, p))
              /\ call' = CallOf("str", PrimRef(f, p), <<>>)
        /\ msgs' = <<>>
        /\ raised' = ""
        /\ UNCHANGED <<id_prefix, next_obj_id, simple_objs, objs, default_style,
                       default_transform, svg_defs>>

NoPt == <<>>
FilterPts == {<<NoPt, NoPt>>, <<NoPt, <<0, 0>>>>, << <<0, 0>>, <<2, 0>> >>}

OrElse(v, d) == IF v = 0 THEN d ELSE v

\* Lines 187-195: the region attributes.
FilterRegion(pt1, pt2) ==
    LET x0 == OrElse(pt1[1], 0)
        y0 == OrElse(pt1[2], 0)
        x1 == OrElse(pt2[1], 1)
        y1 == OrElse(pt2[2], 1)
    IN  << <<"x", x0>>, <<"y", y0>>, <<"width", x1 - x0>>, <<"height", y1 - y0>> >>

\* filter_effect (lines 580-585) and SimpleFilter.__init__ (lines 182-202)
FilterEffect(max, Pts) ==
    /\ Len(svg_defs) < max
    /\ \E pts \in Pts :
          LET pt1 == pts[1]
              pt2 == pts[2]
              new == [tag |-> "filter", id |-> NoId, attrs |-> <<>>,
                      prims |-> <<>>, stops |-> <<>>]
              fails == (pt1 # NoPt \/ pt2 # NoPt) /\ (pt1 = NoPt \/ pt2 = NoPt)
          IN  /\ svg_defs' = Append(svg_defs,
                     IF pt1 # NoPt /\ pt2 # NoPt
                     THEN [new EXCEPT !.attrs = FilterRegion(pt1, pt2)]
                     ELSE new)
              /\ raised' = IF fails THEN "TypeError" ELSE ""
              /\ ret' = IF fails THEN PyNoneRef ELSE FilterRef(Len(svg_defs) + 1)
              /\ call' = CallOf("filter_effect", pts, <<>>)
    /\ msgs' = <<>>
    /\ UNCHANGED <<id_prefix, next_obj_id, simple_objs, objs, default_style,
                   default_transform>>

\* The primitives a script may hold.
PrimRefs(defs) ==
    UNION {{PrimRef(f, p) : p \in 1..Len(defs[f].prims)} : f \in 1..Len(defs)}

RECURSIVE NPrims(_)
NPrims(defs) == IF defs = <<>> THEN 0 ELSE Len(Head(defs).prims) + NPrims(Tail(defs))

ResultOf(defs, r) == DictGet(defs[r.v[1]].prims[r.v[2]].args, "result")

\* The keyword arguments of add: sources are primitives or strings, result a
\* string (possibly one read off another primitive), the rest a number or a
\* sequence of numbers.
PrimPairs(defs, Keys) ==
    {<<k, v>> : k \in {"src1", "src2"} \cap Keys,
                v \in PrimRefs(defs) \cup {StrVal(<<"SourceGraphic">>)}}
    \cup {<<k, v>> : k \in {"result"} \cap Keys,
             v \in {StrVal(<<"r1">>)} \cup {StrVal(ResultOf(defs, r)) : r \in PrimRefs(defs)}}
    \cup {<<k, v>> : k \in {"std_deviation"} \cap Keys,
             v \in {[t |-> "int", v |-> 2], [t |-> "seq", v |-> <<1, 2>>]}}

PrimKwargs(defs, Keys) ==
    {<<>>} \cup {<<p>> : p \in PrimPairs(defs, Keys)}
           \cup {<<p, <<"result", StrVal(<<"r1">>)>> >> :
                    p \in {q \in PrimPairs(defs, Keys \cap {"src1"}) : "result" \in Keys}}

\* A faulty loop body without the isinstance branch of lines 225-226: a
\* primitive passed as a source is stored as str() makes it.
PrimArgNoExtract(defs, all_args, k0, v) ==
    LET k == ReplaceUnderscore(k0)
    IN  IF k \in {"src1", "src2"}
        THEN DictSet(all_args, IF k = "src1" THEN "in" ELSE "in2",
                     IF v.t = "prim"
                     THEN DefaultRepr("SimpleFilterPrimitive", v.v[1], v.v[2])
                     ELSE v.v)
        ELSE IF v.t = "str" THEN DictSet(all_args, k, v.v)
        ELSE IF v.t = "seq"
             THEN DictSet(all_args, k, JoinSpace([i \in 1..Len(v.v) |-> DecStr(v.v[i])]))
             ELSE DictSet(all_args, k, DecStr(v.v))

\* Lines 214-236: one keyword of the loop.
PrimArg(defs, all_args, k0, v) ==
    LET k == ReplaceUnderscore(k0)
    IN  IF k \in {"src1", "src2"}
        THEN DictSet(all_args, IF k = "src1" THEN "in" ELSE "in2",
                     IF v.t = "prim" THEN ResultOf(defs, v) ELSE v.v)
        ELSE IF v.t = "str" THEN DictSet(all_args, k, v.v)
        ELSE IF v.t = "seq"
             THEN DictSet(all_args, k, JoinSpace([i \in 1..Len(v.v) |-> DecStr(v.v[i])]))
             ELSE DictSet(all_args, k, DecStr(v.v))

RECURSIVE PrimArgs(_, _, _)
PrimArgs(defs, all_args, kw_args) ==
    IF kw_args = <<>> THEN all_args
    ELSE PrimArgs(defs, PrimArg(defs, all_args, Head(kw_args)[1], Head(kw_args)[2]),
                  Tail(kw_args))

\* A faulty default that names every result alike.
DefaultArgsFixedName(prefix, n) == << <<"result", <<"result">> >> >>

\* Line 212: all_args = {'result': unique_id()}
DefaultArgs(prefix, n) == << <<"result", UniqueTag(prefix, n)>> >>

\* SimpleFilter.add (lines 241-243) and SimpleFilterPrimitive.__init__
\* (lines 210-239)
FilterAdd(max, Keys) ==
    \E f \in 1..Len(svg_defs) :
        /\ svg_defs[f].tag = "filter"
        /\ NPrims(svg_defs) < max
        /\ \E ftype \in {"GaussianBlur"}, kw_args \in PrimKwargs(svg_defs, Keys) :
              LET all_args == PrimArgs(svg_defs,
                                  DefaultArgs(id_prefix, next_obj_id), kw_args)
                  \* override: whether a keyword replaced the default result
                  \* of line 212 (the elif of line 228 on the key 'result').
                  prim == [ftype |-> <<"fe", ftype>>, args |-> all_args,
                           override |-> \E i \in 1..Len(kw_args) :
                                           kw_args[i][1] = "result"]
              IN  /\ svg_defs' = [svg_defs EXCEPT ![f].prims = Append(@, prim)]
                  /\ next_obj_id' = next_obj_id + 1
                  /\ ret' = PrimRef(f, Len(svg_defs[f].prims) + 1)
                  /\ call' = CallOf("filter.add", [filt |-> f, ftype |-> ftype], kw_args)
        /\ msgs' = <<>>
        /\ raised' = ""
        /\ UNCHANGED <<id_prefix, simple_objs, objs, default_style, default_transform>>

\* repeat_to_spread (lines 250-252) with the KeyError fallback (265-268)
RepeatToSpread(repeat) ==
    CASE repeat = "none" -> "pad"
      [] repeat = "reflected" -> "reflect"
      [] repeat = "direct" -> "repeat"
      [] OTHER -> repeat

GradRefs(defs) == {GradRef(i) : i \in {j \in 1..Len(defs) : defs[j].tag = "linearGradient"}}

\* linear_gradient (lines 588-593) and SimpleLinearGradient.__init__
\* (lines 254-281).  Line 271 names gradientUnits, which nothing defines.
LinearGradient(max, Repeats, Units) ==
    /\ Len(svg_defs) < max
    /\ \E repeat \in Repeats, gradient_units \in Units,
          template \in {PyNoneRef} \cup GradRefs(svg_defs),
          k \in InkexNumbers :
          LET a1 == IF repeat.t # "none"
                    THEN << <<"spreadMethod", <<RepeatToSpread(repeat.s)>> >> >>
                    ELSE <<>>
              defs1 == IF template.t = "none" THEN svg_defs
                       ELSE EnsureId(svg_defs, template.v, k)
              tmpl_name == LET u == UrlOf(defs1[template.v].id)
                           IN  SubSeq(u, 2, Len(u) - 1)
              a2 == IF template.t = "none" THEN a1
                    ELSE a1 \o << <<"href", <<"#">> \o tmpl_name>>,
                                  <<"xlink:href", <<"#">> \o tmpl_name>> >>
              grad == [tag |-> "linearGradient", id |-> NoId, attrs |-> a2,
                       prims |-> <<>>, stops |-> <<>>]
          IN  /\ call' = CallOf("linear_gradient",
                                [repeat |-> repeat, gradient_units |-> gradient_units,
                                 template |-> template], <<>>)
              /\ IF gradient_units.t # "none"
                 THEN /\ raised' = "NameError"
                      /\ ret' = PyNoneRef
                      /\ svg_defs' = svg_defs
                 ELSE /\ IF template.t = "none" THEN TRUE
                         ELSE IF svg_defs[template.v].id # NoId THEN TRUE
                         ELSE IdFree(svg_defs, InkexId("linearGradient", k))
                      /\ raised' = ""
                      /\ ret' = GradRef(Len(svg_defs) + 1)
                      /\ svg_defs' = Append(defs1, grad)
    /\ msgs' = <<>>
    /\ UNCHANGED <<id_prefix, next_obj_id, simple_objs, objs, default_style,
                   default_transform>>

----------------------------------------------------------------------------
(* The run: the state after the module is loaded.                          *)

\* The values randint(100000, 999999) is drawn from here.
RandInts == {100000, 999999}

Init ==
    /\ id_prefix \in {IdPrefix(r) : r \in RandInts}
    /\ next_obj_id = 1
    /\ simple_objs = <<>>
    /\ objs = <<>>
    /\ default_style = <<>>
    /\ default_transform = NoTransform
    /\ svg_defs = <<>>
    /\ call = CallOf("load", <<>>, <<>>)
    /\ ret = PyNoneRef
    /\ msgs = <<>>
    /\ raised = ""

\* The scene: objects, groups and membership.
Next ==
    \/ Circle(MaxObjs, PlainOpts)
    \/ Group(MaxObjs, PlainOpts, HandleLists)
    \/ GroupAdd
    \/ StrObject

Spec == Init /\ [][Next]_vars

\* The shape calls and their rejections.
NextShapes ==
    \/ Line(MaxShapeObjs, PlainOpts)
    \/ Polyline(MaxShapeObjs, PlainOpts)
    \/ Polygon(MaxShapeObjs, PlainOpts)
    \/ RegularPolygon(MaxShapeObjs, PlainOpts)
    \/ Star(MaxShapeObjs, PlainOpts)
    \/ Path(MaxShapeObjs, PlainOpts)
    \/ Arc(MaxShapeObjs, PlainOpts, {0, Pi}, ArcTypes \cup {"pie"})
    \/ Text(MaxShapeObjs, PlainOpts)
    \/ MoreText(PlainOpts)

SpecShapes == Init /\ [][NextShapes]_vars

\* Filter effects and the ids their primitives share with the scene.
NextFilter ==
    \/ Circle(MaxFilterObjs, PlainOpts)
    \/ FilterEffect(MaxFilters, {<<NoPt, NoPt>>})
    \/ FilterAdd(MaxPrims, {"src1", "src2", "result", "std_deviation"})

SpecFilter == Init /\ [][NextFilter]_vars

\* Every kind of handle and its string form.
NextHandles ==
    \/ Circle(MaxHandleObjs, PlainOpts)
    \/ Group(MaxHandleObjs, PlainOpts, {<<>>})
    \/ FilterEffect(MaxDefs, FilterPts)
    \/ FilterAdd(MaxHandlePrims, {})
    \/ LinearGradient(MaxDefs, {PyNone, PyStr("reflected"), PyStr("pad")},
                       {PyNone, PyStr("userSpaceOnUse")})
    \/ StrObject
    \/ StrResource
    \/ StrPrimitive

SpecHandles == Init /\ [][NextHandles]_vars

\* Arcs over the grid of angles.
ArcAngles == (0 - MaxAngle)..MaxAngle

NextArc == Arc(MaxArcObjs, PlainOpts, ArcAngles, ArcTypes \cup {"pie"})

SpecArc == Init /\ [][NextArc]_vars

\* Styles: the process-wide default and the per-call keywords.
NextStyle ==
    \/ Style(DefaultKwargs)
    \/ Circle(MaxStyleObjs, StyleOpts)
    \/ Line(MaxStyleObjs, StyleOpts)
    \/ Text(MaxStyleObjs, StyleOpts)

SpecStyle == Init /\ [][NextStyle]_vars

\* Transforms: the process-wide default and the per-call transform.
NextTransform ==
    \/ Transform(TransformStrings)
    \/ Circle(MaxTransformObjs, TransformOpts)
    \/ Group(MaxTransformObjs, TransformOpts, {<<>>})

SpecTransform == Init /\ [][NextTransform]_vars

\* Everything that draws on the id counter, with the calls that do not.
NextIds ==
    \/ Circle(MaxIdObjs, PlainOpts)
    \/ Group(MaxIdObjs, PlainOpts, HandleLists)
    \/ FilterEffect(MaxDefs, {<<NoPt, NoPt>>})
    \/ FilterAdd(MaxHandlePrims, {})
    \/ Transform({<<" ">>})

SpecIds == Init /\ [][NextIds]_vars

\* generate (lines 615-637), after exec(code): the elements of the
\* top-level registry are yielded in its order, each with whatever the
\* native tree nests under it.  A script may have caught what a call raised.
Generate ==
    /\ ret' = [t |-> "elts",
               v |-> [k \in 1..Len(simple_objs) |-> objs[simple_objs[k]].obj]]
    /\ msgs' = <<>>
    /\ raised' = ""
    /\ call' = CallOf("generate", <<>>, <<>>)
    /\ UNCHANGED <<id_prefix, next_obj_id, simple_objs, objs, default_style,
                   default_transform, svg_defs>>

\* A whole run: the script's calls, then the finalization, then nothing.
NextFinal ==
    \/ call.op # "generate" /\ Circle(MaxObjs, PlainOpts)
    \/ call.op # "generate" /\ Group(MaxObjs, PlainOpts, HandleLists)
    \/ call.op # "generate" /\ GroupAdd
    \/ call.op # "generate" /\ Generate

SpecFinal == Init /\ [][NextFinal]_vars

\* Text and its continuation among other objects and group adds.
NextText ==
    \/ Circle(MaxTextObjs, PlainOpts)
    \/ Text(MaxTextObjs, PlainOpts)
    \/ Group(MaxTextObjs, PlainOpts, {<<>>})
    \/ GroupAdd
    \/ MoreText(PlainOpts)

SpecText == Init /\ [][NextText]_vars

----------------------------------------------------------------------------
(* Properties.                                                             *)

RECURSIVE CountIn(_, _)
CountIn(seq, x) ==
    IF seq = <<>> THEN 0
    ELSE (IF Head(seq) = x THEN 1 ELSE 0) + CountIn(Tail(seq), x)

RECURSIVE SumOver(_, _)
SumOver(seq, x) ==
    IF seq = <<>> THEN 0
    ELSE CountIn(Head(seq).children, x) + SumOver(Tail(seq), x)

\* How many times object i is held: by the registry and by all child lists.
Owners(i) == CountIn(simple_objs, i) + SumOver(objs, i)

\* C1: every created object is held exactly once, by the top-level registry
\* or by one group's child list; and a group.add(x) that reports no error
\* has taken x out of the registry and made it the group's last child.
C1_OneOwner ==
    /\ \A i \in 1..Len(objs) : Owners(i) = 1
    /\ (call.op = "add" /\ msgs = <<>>) =>
          LET g == call.args[1]
              x == call.args[2].v
          IN  /\ ~IsTopLevel(simple_objs, x)
              /\ objs[g].children # <<>>
              /\ objs[g].children[Len(objs[g].children)] = x

\* C1's case: an add went through and a group holds a group that holds an
\* object, while another object is still top-level.
C1_Witness ==
    /\ call.op = "add" /\ msgs = <<>>
    /\ \E g \in 1..Len(objs), h \in 1..Len(objs) :
          /\ g # h
          /\ CountIn(objs[g].children, h) = 1
          /\ objs[h].children # <<>>

DigitVal(c) == CHOOSE d \in 0..9 : Digit(d) = c

RECURSIVE ParseDec(_)
ParseDec(ds) ==
    IF ds = <<>> THEN 0
    ELSE 10 * ParseDec(SubSeq(ds, 1, Len(ds) - 1)) + DigitVal(ds[Len(ds)])

\* The numeric suffix of an id: the digits after the run prefix.
Suffix(id) == ParseDec(SubSeq(id, Len(id_prefix) + 1, Len(id)))

\* C2: the ids of the objects created so far are pairwise distinct, their
\* numeric suffixes strictly increase in creation order, start at 1 or
\* above, and all lie below the counter, which therefore never hands out a
\* value again.
C2_IdsIncrease ==
    /\ next_obj_id >= 1
    /\ \A i \in 1..Len(objs) :
          /\ SubSeq(objs[i].obj.id, 1, Len(id_prefix)) = id_prefix
          /\ Suffix(objs[i].obj.id) >= 1
          /\ Suffix(objs[i].obj.id) < next_obj_id
    /\ \A i \in 1..Len(objs), j \in 1..Len(objs) :
          i < j => /\ objs[i].obj.id # objs[j].obj.id
                   /\ Suffix(objs[i].obj.id) < Suffix(objs[j].obj.id)

\* C2's case: two objects were created with a filter primitive between them.
C2_Witness ==
    /\ Len(objs) >= 2
    /\ Suffix(objs[2].obj.id) > Suffix(objs[1].obj.id) + 1
    /\ NPrims(svg_defs) >= 1

\* The calls the program is to reject as user-input errors, by their input
\* and, for more_text, by the registry reg the call finds.
IsRejectedInput(c, reg) ==
    \/ c.op = "polyline" /\ Len(c.args) < 2
    \/ c.op = "polygon" /\ Len(c.args) < 3
    \/ c.op \in {"regular_polygon", "star"} /\ c.args < 3
    \/ c.op = "path" /\ Len(c.args) = 0
    \/ c.op = "arc" /\ c.args.arc_type \notin {"arc", "slice", "chord"}
    \/ c.op = "more_text" /\ (reg = <<>> \/ objs[reg[Len(reg)]].obj.tag # "text")

\* C3: every creation call rejected as a user-input error reports a
\* message, returns no object and leaves the top-level registry as it was.
C3_RejectedReturnsNothing ==
    [][IsRejectedInput(call', simple_objs) =>
          /\ msgs' # <<>>
          /\ ret' = PyNoneRef
          /\ simple_objs' = simple_objs]_vars

\* The arc call with an unrecognized arc_type: it has reported its message
\* and yet returned an object that the registry now holds.
C3_ArcStillCreated ==
    /\ call.op = "arc" /\ call.args.arc_type = "pie"
    /\ msgs # <<>>
    /\ ret.t = "obj"
    /\ IsTopLevel(simple_objs, ret.v)

\* C4: a group.add(x) whose x is no scene object, or is not in the top-level
\* registry when the call is made, reports an error and leaves the registry,
\* every object with its child list, and the id counter as they were.
C4_FailedAddChangesNothing ==
    [][(/\ call'.op = "add"
        /\ \/ call'.args[2].t # "obj"
           \/ ~IsTopLevel(simple_objs, call'.args[2].v)) =>
          /\ msgs' # <<>>
          /\ simple_objs' = simple_objs
          /\ objs' = objs
          /\ next_obj_id' = next_obj_id]_vars

\* C4's case: an object already owned by a group was offered to a group
\* again, and the call reported it.
C4_Witness ==
    /\ call.op = "add"
    /\ call.args[2].t = "obj"
    /\ ~IsTopLevel(simple_objs, call.args[2].v)
    /\ msgs = <<"Only objects not already in a group can be added to a group">>
    /\ \E g \in 1..Len(objs) : CountIn(objs[g].children, call.args[2].v) = 1

\* A style key as the resolved style spells it.
Hyphened(k) == IF k = "stroke_width" THEN "stroke-width" ELSE k

ResolvedKeys == {"stroke", "fill", "stroke-width"}

\* The last pair of a layer that mentions key k, 0 when none does.
LastMention(layer, k) ==
    LET I == {i \in 1..Len(layer) : Hyphened(layer[i][1]) = k}
    IN  IF I = {} THEN 0 ELSE CHOOSE i \in I : \A j \in I : j <= i

\* The value the highest-precedence layer that mentions k gives it:
\* per-call, then process-wide default, then shape default; None when no
\* layer mentions k.
TopValue(shape, dflt, own, k) ==
    IF LastMention(own, k) # 0 THEN own[LastMention(own, k)][2]
    ELSE IF LastMention(dflt, k) # 0 THEN dflt[LastMention(dflt, k)][2]
    ELSE IF LastMention(shape, k) # 0 THEN shape[LastMention(shape, k)][2]
    ELSE PyNone

ShapeLayer(op) ==
    CASE op = "circle" -> CommonShapeStyle
      [] op = "line" -> LineShapeStyle
      [] OTHER -> EmptyStyle

\* The key:value entries of a style string k:v;k:v;...
StyleEntries(toks) == {i \in 1..Len(toks) : i % 4 = 1}

WellFormedStyle(toks) ==
    /\ toks # <<>> => Len(toks) % 4 = 3
    /\ \A i \in 1..Len(toks) :
          /\ i % 4 = 2 => toks[i] = ":"
          /\ i % 4 = 0 => toks[i] = ";"

\* The resolved style toks holds k exactly when the top layer that mentions
\* k gives it a value other than None, once, and with that value.
StyleAgrees(toks, shape, dflt, own) ==
    /\ WellFormedStyle(toks)
    /\ \A i \in StyleEntries(toks) : toks[i] \in ResolvedKeys
    /\ \A k \in ResolvedKeys :
          LET v == TopValue(shape, dflt, own, k)
              at == {i \in StyleEntries(toks) : toks[i] = k}
          IN  IF v.t = "none" THEN at = {}
              ELSE /\ Cardinality(at) = 1
                   /\ \A i \in at : toks[i + 2] = Str(v)

IsStyledCreation == call.op \in {"circle", "line", "text"} /\ ret.t = "obj"

\* C5: the resolved style of a created object holds key k with value v
\* exactly when v is the value, not None, that the highest-precedence layer
\* mentioning k gives it (per-call over process-wide default over shape
\* default, underscores of keys read as hyphens); a key whose top value is
\* None does not appear, and no entry carries None.  An empty string given
\* as a value is a value like any other and is kept; and style() records
\* each keyword under its hyphened key.
C5_StylePrecedence ==
    /\ IsStyledCreation =>
          /\ StyleAgrees(objs[ret.v].obj.style, ShapeLayer(call.op),
                         default_style, call.opt.style)
          /\ \A i \in StyleEntries(objs[ret.v].obj.style) :
                objs[ret.v].obj.style[i + 2] # "None"
    /\ call.op = "style" =>
          \A i \in 1..Len(call.args) :
             LET k == Hyphened(call.args[i][1])
                 v == call.args[LastMention(call.args, k)][2]
             IN  /\ LastMention(default_style, k) # 0
                 /\ default_style[LastMention(default_style, k)][2] =
                       (IF v.t = "none" THEN PyNone ELSE PyStr(Str(v)))

\* C5 as first stated: the precedence rule, and no resolved style ever
\* carries an empty or null value.
C5_NeverEmptyValue ==
    /\ C5_StylePrecedence
    /\ IsStyledCreation =>
          \A i \in StyleEntries(objs[ret.v].obj.style) :
             objs[ret.v].obj.style[i + 2] \notin {"", "None"}

\* C5's case: the default gives fill a colour, the call takes fill away with
\* None and sets stroke_width, and the circle keeps its shape's stroke.
C5_Witness ==
    /\ call.op = "circle" /\ ret.t = "obj"
    /\ TopValue(<<>>, default_style, <<>>, "fill") = PyStr("red")
    /\ call.opt.style = << <<"fill", PyNone>>, <<"stroke_width", PyInt(2)>> >>
    /\ objs[ret.v].obj.style = <<"stroke", ":", "black", ";", "stroke-width", ":", "2">>

IsGiven(t) == t.t = "str" /\ t.s # <<>>

\* C6: the transform of a created object is the non-empty ones of the
\* per-call transform and the process-wide default, the per-call one first
\* and one space between; with neither, the element gets no transform.
C6_TransformOrder ==
    (call.op \in {"circle", "group"} /\ ret.t = "obj") =>
       LET own == call.opt.transform
           got == objs[ret.v].obj.transform
       IN  /\ (IsGiven(own) /\ IsGiven(default_transform)) =>
                 got = Tr(own.s \o <<" ">> \o default_transform.s)
           /\ (IsGiven(own) /\ ~IsGiven(default_transform)) => got = Tr(own.s)
           /\ (~IsGiven(own) /\ IsGiven(default_transform)) =>
                 got = Tr(default_transform.s)
           /\ (~IsGiven(own) /\ ~IsGiven(default_transform)) => got.t = "none"

\* C6's case: a circle created with transform "s" under the default "r".
C6_Witness ==
    /\ call.op = "circle" /\ ret.t = "obj"
    /\ call.opt.transform = Tr(<<"s">>)
    /\ default_transform = Tr(<<"r">>)
    /\ objs[ret.v].obj.transform = Tr(<<"s", " ", "r">>)

\* The text url(#id)
IsUrlOf(text, id) == text = <<"url(#">> \o id \o <<")">>

\* C7: str() of a scene object (a group included), of a filter effect and of
\* a linear gradient is url(#id) with the id of the element it wraps; a
\* filter primitive defines no such conversion and str() of it is not of
\* that form.
C7_UrlOfHandles ==
    call.op = "str" =>
       /\ ret.t = "str"
       /\ call.args.t = "obj" => IsUrlOf(ret.v, objs[call.args.v].obj.id)
       /\ call.args.t \in {"filter", "grad"} =>
             /\ svg_defs[call.args.v].id # NoId
             /\ IsUrlOf(ret.v, svg_defs[call.args.v].id)
       /\ call.args.t = "prim" => (ret.v[1] # "url(#" /\ ret.v[Len(ret.v)] # ")")

\* C7 as first stated: str() of every kind of handle, the filter primitive
\* among them, is of the form url(#id).
C7_EveryHandleIsUrl ==
    call.op = "str" =>
       /\ ret.t = "str"
       /\ call.args.t = "obj" => IsUrlOf(ret.v, objs[call.args.v].obj.id)
       /\ call.args.t \in {"filter", "grad"} =>
             IsUrlOf(ret.v, svg_defs[call.args.v].id)
       /\ call.args.t = "prim" => (ret.v[1] = "url(#" /\ ret.v[Len(ret.v)] = ")")

\* C7's case: str() of a linear gradient, which got its id on the way.
C7_Witness ==
    /\ call.op = "str" /\ call.args.t = "grad"
    /\ svg_defs[call.args.v].id # NoId
    /\ ret.v[1] = "url(#"

ResultId(prim) == DictGet(prim.args, "result")

\* C8: within one filter effect, the primitives added without a result
\* keyword have pairwise distinct result identifiers.
C8_DefaultResultsDistinct ==
    \A f \in 1..Len(svg_defs) :
       \A p \in 1..Len(svg_defs[f].prims), q \in 1..Len(svg_defs[f].prims) :
          (p # q /\ ~svg_defs[f].prims[p].override /\ ~svg_defs[f].prims[q].override)
             => ResultId(svg_defs[f].prims[p]) # ResultId(svg_defs[f].prims[q])

\* C8 as first stated: within one filter effect all result identifiers are
\* pairwise distinct, a caller-supplied result or not.
C8_AllResultsDistinct ==
    \A f \in 1..Len(svg_defs) :
       \A p \in 1..Len(svg_defs[f].prims), q \in 1..Len(svg_defs[f].prims) :
          p # q => ResultId(svg_defs[f].prims[p]) # ResultId(svg_defs[f].prims[q])

\* C8's case: a filter with two primitives added without a result keyword,
\* and an object created between them.
C8_Witness ==
    \E f \in 1..Len(svg_defs) :
       /\ Len(svg_defs[f].prims) >= 2
       /\ ~svg_defs[f].prims[1].override
       /\ ~svg_defs[f].prims[2].override
       /\ objs # <<>>
       /\ Suffix(ResultId(svg_defs[f].prims[1])) < Suffix(objs[1].obj.id)
       /\ Suffix(objs[1].obj.id) < Suffix(ResultId(svg_defs[f].prims[2]))

\* The value the call passed for keyword k, as the last pair naming it.
Passed(kw, k) ==
    LET I == {i \in 1..Len(kw) : kw[i][1] = k}
    IN  kw[CHOOSE i \in I : \A j \in I : j <= i][2]

IsPassed(kw, k) == \E i \in 1..Len(kw) : kw[i][1] = k

\* C9: a primitive added with src1 (src2) set to an earlier primitive has
\* that primitive's result identifier, as it now stands, as its input in
\* (in2); set to a string, it has the string.
C9_SourceIsResult ==
    (call.op = "filter.add" /\ ret.t = "prim") =>
       LET new == svg_defs[ret.v[1]].prims[ret.v[2]]
           Input(key, attr) ==
              IsPassed(call.opt, key) =>
                 LET v == Passed(call.opt, key)
                 IN  /\ HasKey(new.args, attr)
                     /\ v.t = "prim" =>
                           DictGet(new.args, attr) =
                              ResultId(svg_defs[v.v[1]].prims[v.v[2]])
                     /\ v.t = "str" => DictGet(new.args, attr) = v.v
       IN  Input("src1", "in") /\ Input("src2", "in2")

\* C9's case: the second primitive takes as src1 the first, whose result
\* the caller had named r1.
C9_Witness ==
    /\ call.op = "filter.add" /\ ret.t = "prim"
    /\ IsPassed(call.opt, "src1")
    /\ Passed(call.opt, "src1").t = "prim"
    /\ DictGet(svg_defs[ret.v[1]].prims[ret.v[2]].args, "in") = <<"r1">>

\* The point of the ellipse at the angle ang of the call.
PointAt(ang) == [on |-> "ellipse", at |-> (ang * Fine) % (TwoPi * Fine)]

HasAttr(attrs, k) == \E i \in 1..Len(attrs) : attrs[i][1] = k

\* C10: the path of an arc call with a recognized arc_type is one move-to
\* at the ang1 point, then one or more arc segments the last of which ends
\* at the ang2 point, then nothing for 'arc' (and the shape is marked
\* open), a line-to the center and a close for 'slice', a close alone for
\* 'chord'.
C10_ArcPathShape ==
    (call.op = "arc" /\ call.args.arc_type \in {"arc", "slice", "chord"}) =>
       LET p == objs[ret.v].obj.path
           attrs == objs[ret.v].obj.attrs
           tail == CASE call.args.arc_type = "arc" -> 0
                     [] call.args.arc_type = "slice" -> 2
                     [] call.args.arc_type = "chord" -> 1
           n == Len(p) - 1 - tail
       IN  /\ ret.t = "obj"
           /\ n >= 1
           /\ p[1] = [cmd |-> "M", to |-> PointAt(call.args.ang1)]
           /\ \A s \in 2..(n + 1) : p[s].cmd = "A" /\ p[s].to.on = "ellipse"
           /\ p[n + 1].to = PointAt(call.args.ang2)
           /\ call.args.arc_type = "arc" => HasAttr(attrs, "sodipodi:open")
           /\ call.args.arc_type = "slice" =>
                 /\ p[n + 2] = [cmd |-> "L", to |-> [on |-> "center", at |-> 0]]
                 /\ p[n + 3].cmd = "Z"
                 /\ ~HasAttr(attrs, "sodipodi:open")
           /\ call.args.arc_type = "chord" =>
                 /\ p[n + 2].cmd = "Z"
                 /\ ~HasAttr(attrs, "sodipodi:open")

\* C10's case: the half turn from 0 to pi as a slice, in several segments.
C10_Witness ==
    /\ call.op = "arc" /\ ret.t = "obj"
    /\ call.args = [ang1 |-> 0, ang2 |-> Pi, arc_type |-> "slice"]
    /\ Len(objs[ret.v].obj.path) >= 1 + 2 + 2
    /\ objs[ret.v].obj.path[Len(objs[ret.v].obj.path)].cmd = "Z"

\* sweep = (ang2 - ang1) mod 2 pi, a full turn when that is 0.
Sweep(ang1, ang2) ==
    LET d == (ang2 - ang1) % TwoPi
    IN  IF d = 0 THEN TwoPi ELSE d

\* The elliptical-arc segments of a path.
ArcCount(p) == Cardinality({s \in 1..Len(p) : p[s].cmd = "A"})

\* The segments 2..n+1 of p are n equal sub-sweeps of sweep from ang1, each
\* at most a quarter turn.
EqualSubSweeps(p, ang1, sweep, n) ==
    /\ (sweep * Fine) % n = 0
    /\ (sweep * Fine) \div n <= HalfPi * Fine
    /\ \A s \in 1..n :
          /\ p[s + 1].cmd = "A"
          /\ p[s + 1].to = [on |-> "ellipse",
                            at |-> (ang1 * Fine + s * ((sweep * Fine) \div n))
                                      % (TwoPi * Fine)]

\* C11: the number of arc segments of an arc call is the whole quarter
\* turns in the sweep plus one, floor(sweep / (pi/2)) + 1, with the sweep a
\* full turn when ang1 and ang2 name the same point; the segments are equal
\* sub-sweeps, each at most a quarter turn.
C11_SegmentCount ==
    (call.op = "arc" /\ ret.t = "obj") =>
       LET p == objs[ret.v].obj.path
           sweep == Sweep(call.args.ang1, call.args.ang2)
           n == sweep \div HalfPi + 1
       IN  /\ ArcCount(p) = n
           /\ EqualSubSweeps(p, call.args.ang1, sweep, n)

\* C11 as first stated: the number of segments is ceil(sweep / (pi/2)).
C11_CeilSegmentCount ==
    (call.op = "arc" /\ ret.t = "obj") =>
       LET p == objs[ret.v].obj.path
           sweep == Sweep(call.args.ang1, call.args.ang2)
           n == (sweep + HalfPi - 1) \div HalfPi
       IN  /\ ArcCount(p) = n
           /\ EqualSubSweeps(p, call.args.ang1, sweep, n)

\* C11's case: ang1 = ang2 = pi/2, the full ellipse, in five segments that
\* come back to the starting point.
C11_Witness ==
    /\ call.op = "arc" /\ ret.t = "obj"
    /\ call.args.ang1 = HalfPi /\ call.args.ang2 = HalfPi
    /\ ArcCount(objs[ret.v].obj.path) = 5
    /\ objs[ret.v].obj.path[6].to = objs[ret.v].obj.path[1].to

\* C12: more_text succeeds exactly when the most recently created scene
\* object is a text object; it then appends one span to that object and
\* returns it, with the registry and the id counter as they were; otherwise
\* it reports an error and changes nothing.
C12_FollowsLastCreated ==
    [][call'.op = "more_text" =>
          IF objs # <<>> /\ objs[Len(objs)].obj.tag = "text"
          THEN /\ msgs' = <<>>
               /\ ret' = ObjRef(Len(objs))
               /\ Len(objs') = Len(objs)
               /\ Len(objs'[Len(objs)].obj.tspans) =
                     Len(objs[Len(objs)].obj.tspans) + 1
               /\ \A i \in 1..(Len(objs) - 1) : objs'[i] = objs[i]
               /\ simple_objs' = simple_objs
               /\ next_obj_id' = next_obj_id
          ELSE /\ msgs' # <<>>
               /\ ret' = PyNoneRef
               /\ objs' = objs
               /\ simple_objs' = simple_objs
               /\ next_obj_id' = next_obj_id]_vars

\* A more_text that went through although the object created last is no
\* text: the span went to an earlier text, the last one left in the
\* registry.
C12_AppendedToEarlierText ==
    /\ call.op = "more_text" /\ ret.t = "obj"
    /\ ret.v # Len(objs)
    /\ objs[Len(objs)].obj.tag # "text"
    /\ objs[ret.v].obj.tspans # <<>>

\* A more_text refused although the object created last is a text: a group
\* holds that text, and the registry ends with something else.
C12_RefusedAfterText ==
    /\ call.op = "more_text" /\ msgs # <<>>
    /\ objs # <<>>
    /\ objs[Len(objs)].obj.tag = "text"
    /\ ~IsTopLevel(simple_objs, Len(objs))

\* Whether object b is object a or is found from a through child lists, in
\* at most fuel steps.
RECURSIVE Reaches(_, _, _, _)
Reaches(os, a, b, fuel) ==
    \/ a = b
    \/ /\ fuel > 0
       /\ \E k \in 1..Len(os[a].children) :
             Reaches(os, os[a].children[k], b, fuel - 1)

\* The places of the registry from which object i is found.
EmittedFrom(i) ==
    {r \in 1..Len(simple_objs) : Reaches(objs, simple_objs[r], i, Len(objs))}

\* C13: at finalization the registry members are yielded in registry order,
\* and every object created in the run is a registry member or is found
\* from exactly one registry member through group child lists: none is
\* left out and none comes twice.
C13_AllEmittedOnce ==
    call.op = "generate" =>
       /\ Len(ret.v) = Len(simple_objs)
       /\ \A k \in 1..Len(simple_objs) : ret.v[k].id = objs[simple_objs[k]].obj.id
       /\ \A i \in 1..Len(objs) : Cardinality(EmittedFrom(i)) = 1

\* Two groups added to each other: at finalization the registry is empty
\* and neither group is found from it.
C13_GroupsLost ==
    /\ call.op = "generate"
    /\ simple_objs = <<>>
    /\ \E g \in 1..Len(objs), h \in 1..Len(objs) :
          /\ g # h
          /\ CountIn(objs[g].children, h) = 1
          /\ CountIn(objs[h].children, g) = 1

====
